---- MODULE Spec2Model ----
(***************************************************************************)
(* pRRT: the parallel RRT planner of ompl/kinematic/planners/rrt/pRRT.cpp. *)
(* The orchestrator (pRRT::solve) seeds the tree, launches m_threadCount   *)
(* workers (pRRT::threadSolve), joins them and reports a path.  Workers    *)
(* share the nearest-neighbour index m_nn (guarded by m_nnLock) and the    *)
(* incumbent SolutionInfo sol (guarded by sol.lock).                       *)
(*                                                                         *)
(* Doubles are modelled as fixed-point integers; +infinity is Infinity.    *)
(* Motion pointers are indices into nn (the order of m_nn.add calls);      *)
(* NULL is 0.                                                              *)
(***************************************************************************)
EXTENDS Integers, Sequences, FiniteSets, TLC

(* ------------------------------ bounds -------------------------------- *)
\* largest thread count setThreadCount is called with
MaxThreads == 2
\* loop iterations started by all workers together, over all solve calls
MaxIter == 2
\* solve calls made on one planner
MaxSolves == 2
\* largest goal distance the goal reports
MaxDist == 3

(* ------------------------- program constants -------------------------- *)
NULL == 0
Dim == 2
MinValue == 0
MaxValue == 4
\* m_rho = RhoNum / RhoDen
RhoNum == 1
RhoDen == 2
\* the goal region's threshold: satisfied iff distance < threshold
GoalThreshold == 2
Infinity == MaxDist + 1
NoThread == MaxThreads

Workers == 0 .. (MaxThreads - 1)
Dists == 0 .. MaxDist
NoState == <<>>
\* states handed out by sampleGoal / the per-thread sampler
Samples == { <<4, 4>>, <<0, 3>> }
\* the start states of the problem definition
StartStates == << <<0, 0>>, <<4, 0>> >>
\* m_pdef->getStartStateCount()
NStarts == Len(StartStates)
\* m_pdef->getStartState(i)
StartState(i) == StartStates[i]

VARIABLES
    hasGoal,            \* m_pdef->getGoal() is a GoalRegion
    startOK,            \* satisfiesBounds(st) && isValid(st), per start state
    threadCount,        \* m_threadCount
    addedStartStates,   \* m_addedStartStates
    nn,                 \* m_nn: sequence of Motion [state, parent]
    nnLock,             \* m_nnLock: owner tid or NoThread
    sol,                \* SolutionInfo: [solution, approxsol, approxdif]
    solLock,            \* sol.lock: owner tid or NoThread
    timeUp,             \* time::now() >= endTime
    opc,                \* where solve is: "idle" or "running"
    pc,                 \* where each worker is in threadSolve
    rstate,             \* per worker: rmotion->state
    nmotion,            \* per worker: nmotion
    xstate,             \* per worker: xstate
    motion,             \* per worker: motion (after m_nn.add)
    dist,               \* per worker: dist
    goalPath,           \* Goal: the path given to setSolutionPath
    goalApprox,         \* Goal: the approximate flag given to setSolutionPath
    goalDiff,           \* Goal: the value given to setDifference
    ret,                \* return value of the last solve call
    reported,           \* the last solve call called setSolutionPath
    exact,              \* the last solve call found sol.solution != NULL at join
    solNode,            \* the node the last solve call built its path from
    gdist,              \* history: goal distance measured for each node, -1 if none
    callBase,           \* history: m_nn.size() when the workers were launched
    nSucc,              \* history: checkMotion successes, all calls
    iters,              \* history: loop iterations started, all calls
    solves,             \* history: solve calls made
    iterBudget,         \* loop iterations the run may start (MaxIter)
    overrun             \* history: per worker, tree insertions (ins) and
                        \* incumbent writes (wr) since sol.solution was set

vars == << hasGoal, startOK, threadCount, addedStartStates, nn, nnLock, sol,
           solLock, timeUp, opc, pc, rstate, nmotion, xstate, motion, dist,
           goalPath, goalApprox, goalDiff, ret, reported, exact, solNode,
           gdist, callBase, nSucc, iters, solves, iterBudget, overrun >>

config == << hasGoal, startOK, threadCount, iterBudget >>
locals == << rstate, nmotion, xstate, motion, dist >>
goalv  == << goalPath, goalApprox, goalDiff >>
outv   == << ret, reported, exact, solNode >>

(* ----------------------------- helpers -------------------------------- *)
Abs(x) == IF x < 0 THEN -x ELSE x

\* diff * m_rho in fixed point, rounded toward zero
MulRho(diff) ==
    IF diff < 0 THEN -(((-diff) * RhoNum) \div RhoDen)
    ELSE (diff * RhoNum) \div RhoDen

\* range[i] = m_rho * (maxValue - minValue)
Range(i) == MulRho(MaxValue - MinValue)

\* faulty variant: the candidate is taken as it is
Unclamped(r, n, i) == r

\* xstate->values[i]
SteerCoord(r, n, i) ==
    LET diff == r - n
    IN  IF Abs(diff) < Range(i) THEN r ELSE n + MulRho(diff)

Steer(r, n) == [i \in 1 .. Dim |-> SteerCoord(r[i], n[i], i)]

\* the metric of the nearest-neighbour index
RECURSIVE SqSum(_, _, _)
SqSum(a, b, i) ==
    IF i = 0 THEN 0
    ELSE (a[i] - b[i]) * (a[i] - b[i]) + SqSum(a, b, i - 1)

Distance(a, b) == SqSum(a, b, Dim)

\* m_nn.nearest(rmotion): any node at least distance from the query
Nearest(tree, q) ==
    { i \in 1 .. Len(tree) :
        \A j \in 1 .. Len(tree) :
            Distance(tree[i].state, q) <= Distance(tree[j].state, q) }

\* faulty variant: the parent is never set
OrphanMotion(st, par) == [state |-> st, parent |-> NULL]

\* new Motion(dim) with state and parent set
NewMotion(st, par) == [state |-> st, parent |-> par]

\* faulty variant: the motion is inserted twice
NNAddTwice(tree, m) == Append(Append(tree, m), m)

\* m_nn.add(motion)
NNAdd(tree, m) == Append(tree, m)

\* goal->isSatisfied(state, &dist), for a state at goal distance d
IsSatisfied(d) == d < GoalThreshold

\* faulty variant: the lock does not exclude
CanLockAlways(l) == TRUE

\* a mutex can be taken when nobody owns it
CanLock(l) == l = NoThread

\* faulty variant: a recorded exact solution does not end the loop
IgnoresSolution(s, up) == ~up

\* faulty variant: the deadline is not checked
IgnoresDeadline(s, up) == s.solution = NULL

\* while (sol->solution == NULL && time::now() < endTime)
LoopCond(s, up) == s.solution = NULL /\ ~up

\* faulty variant: the lock is not released
KeepLocked(l, w) == l

\* unlock() by the owner
Unlock(l, w) == IF l = w THEN NoThread ELSE l

\* faulty variant: the comparison is inverted
Worsens(d, s) == d > s.approxdif

\* line 98: if (dist < sol->approxdif)
Improves(d, s) == d < s.approxdif

\* faulty variant: no second comparison under the lock
AlwaysImproves(d, s) == TRUE

\* faulty variant: the second comparison is not strict
NotWorse(d, s) == d <= s.approxdif

\* line 101: if (dist < sol->approxdif)
StillImproves(d, s) == d < s.approxdif

EmptySol == [solution |-> NULL, approxsol |-> NULL, approxdif |-> Infinity]

\* nothing done since an exact solution was recorded
NoOverrun == [ins |-> [w \in Workers |-> 0], wr |-> [w \in Workers |-> 0]]

\* one more action of kind f by worker w, counted once sol.solution is set
Counted(o, f, w, s) ==
    IF s.solution = NULL THEN o ELSE [o EXCEPT ![f][w] = @ + 1]

(* ------------------------------- Init --------------------------------- *)
Init ==
    /\ hasGoal \in BOOLEAN
    /\ startOK \in [1 .. NStarts -> BOOLEAN]
    /\ threadCount \in 1 .. MaxThreads
    /\ addedStartStates = 0
    /\ nn = <<>>
    /\ nnLock = NoThread
    /\ sol = EmptySol
    /\ solLock = NoThread
    /\ timeUp = FALSE
    /\ opc = "idle"
    /\ pc = [w \in Workers |-> "none"]
    /\ rstate = [w \in Workers |-> NoState]
    /\ nmotion = [w \in Workers |-> NULL]
    /\ xstate = [w \in Workers |-> NoState]
    /\ motion = [w \in Workers |-> NULL]
    /\ dist = [w \in Workers |-> 0]
    /\ goalPath = <<>>
    /\ goalApprox = FALSE
    /\ goalDiff = Infinity
    /\ ret = FALSE
    /\ reported = FALSE
    /\ exact = FALSE
    /\ solNode = NULL
    /\ gdist = <<>>
    /\ callBase = 0
    /\ nSucc = 0
    /\ iters = 0
    /\ solves = 0
    /\ iterBudget = MaxIter
    /\ overrun = NoOverrun

(* ------------------------ pRRT::threadSolve --------------------------- *)
\* A local is cleared in the model once the code no longer reads its value.
ResetLocals(w) ==
    /\ rstate' = [rstate EXCEPT ![w] = NoState]
    /\ nmotion' = [nmotion EXCEPT ![w] = NULL]
    /\ xstate' = [xstate EXCEPT ![w] = NoState]
    /\ motion' = [motion EXCEPT ![w] = NULL]
    /\ dist' = [dist EXCEPT ![w] = 0]

\* lines 57-63: the loop condition, read without a lock, then the sample
\* (goal biasing or the thread's sampler)
LoopHead(w) ==
    /\ pc[w] = "head"
    /\ IF LoopCond(sol, timeUp)
       THEN /\ iters < iterBudget
            /\ iters' = iters + 1
            /\ \E r \in Samples : rstate' = [rstate EXCEPT ![w] = r]
            /\ pc' = [pc EXCEPT ![w] = "lockNearest"]
       ELSE /\ pc' = [pc EXCEPT ![w] = "done"]
            /\ UNCHANGED << iters, rstate >>
    /\ UNCHANGED << config, addedStartStates, nn, nnLock, sol, solLock, timeUp,
                    opc, nmotion, xstate, motion, dist, goalv, outv, gdist,
                    callBase, nSucc, solves, overrun >>

\* line 66: m_nnLock.lock()
LockNearest(w) ==
    /\ pc[w] = "lockNearest"
    /\ CanLock(nnLock)
    /\ nnLock' = w
    /\ pc' = [pc EXCEPT ![w] = "nearest"]
    /\ UNCHANGED << config, addedStartStates, nn, sol, solLock, timeUp, opc,
                    locals, goalv, outv, gdist, callBase, nSucc, iters, solves,
                    overrun >>

\* lines 67-68: nmotion = m_nn.nearest(rmotion); m_nnLock.unlock()
FindNearest(w) ==
    /\ pc[w] = "nearest"
    /\ \E n \in Nearest(nn, rstate[w]) : nmotion' = [nmotion EXCEPT ![w] = n]
    /\ nnLock' = Unlock(nnLock, w)
    /\ pc' = [pc EXCEPT ![w] = "steer"]
    /\ UNCHANGED << config, addedStartStates, nn, sol, solLock, timeUp, opc,
                    rstate, xstate, motion, dist, goalv, outv, gdist, callBase,
                    nSucc, iters, solves, overrun >>

\* lines 71-82: the state to add; si->checkMotion(nmotion->state, xstate)
\* succeeds and the motion is created
ExtendValid(w) ==
    /\ pc[w] = "steer"
    /\ xstate' = [xstate EXCEPT ![w] = Steer(rstate[w], nn[nmotion[w]].state)]
    /\ rstate' = [rstate EXCEPT ![w] = NoState]
    /\ nSucc' = nSucc + 1
    /\ pc' = [pc EXCEPT ![w] = "lockAdd"]
    /\ UNCHANGED << config, addedStartStates, nn, nnLock, sol, solLock, timeUp,
                    opc, nmotion, motion, dist, goalv, outv, gdist, callBase,
                    iters, solves, overrun >>

\* faulty variant: the motion is created although the check failed
ExtendUnchecked(w) ==
    /\ pc[w] = "steer"
    /\ xstate' = [xstate EXCEPT ![w] = Steer(rstate[w], nn[nmotion[w]].state)]
    /\ rstate' = [rstate EXCEPT ![w] = NoState]
    /\ pc' = [pc EXCEPT ![w] = "lockAdd"]
    /\ UNCHANGED << config, addedStartStates, nn, nnLock, sol, solLock, timeUp,
                    opc, nmotion, motion, dist, goalv, outv, gdist, callBase,
                    nSucc, iters, solves, overrun >>

\* lines 71-77: the state to add; si->checkMotion(nmotion->state, xstate)
\* fails: back to the loop head
ExtendInvalid(w) ==
    /\ pc[w] = "steer"
    /\ ResetLocals(w)
    /\ pc' = [pc EXCEPT ![w] = "head"]
    /\ UNCHANGED << config, addedStartStates, nn, nnLock, sol, solLock, timeUp,
                    opc, goalv, outv, gdist, callBase, nSucc, iters, solves,
                    overrun >>

\* line 84: m_nnLock.lock()
LockAdd(w) ==
    /\ pc[w] = "lockAdd"
    /\ CanLock(nnLock)
    /\ nnLock' = w
    /\ pc' = [pc EXCEPT ![w] = "add"]
    /\ UNCHANGED << config, addedStartStates, nn, sol, solLock, timeUp, opc,
                    locals, goalv, outv, gdist, callBase, nSucc, iters, solves,
                    overrun >>

\* faulty variant: the worker goes on with the parent, not the new motion
AddMotionKeepsParent(w) ==
    /\ pc[w] = "add"
    /\ nn' = NNAdd(nn, NewMotion(xstate[w], nmotion[w]))
    /\ gdist' = Append(gdist, -1)
    /\ motion' = [motion EXCEPT ![w] = nmotion[w]]
    /\ xstate' = [xstate EXCEPT ![w] = NoState]
    /\ nmotion' = [nmotion EXCEPT ![w] = NULL]
    /\ nnLock' = Unlock(nnLock, w)
    /\ overrun' = Counted(overrun, "ins", w, sol)
    /\ pc' = [pc EXCEPT ![w] = "goal"]
    /\ UNCHANGED << config, addedStartStates, sol, solLock, timeUp, opc, rstate,
                    dist, goalv, outv, callBase, nSucc, iters, solves >>

\* lines 85-86: m_nn.add(motion); m_nnLock.unlock()
AddMotion(w) ==
    /\ pc[w] = "add"
    /\ nn' = NNAdd(nn, NewMotion(xstate[w], nmotion[w]))
    /\ gdist' = Append(gdist, -1)
    /\ motion' = [motion EXCEPT ![w] = Len(nn')]
    /\ xstate' = [xstate EXCEPT ![w] = NoState]
    /\ nmotion' = [nmotion EXCEPT ![w] = NULL]
    /\ nnLock' = Unlock(nnLock, w)
    /\ overrun' = Counted(overrun, "ins", w, sol)
    /\ pc' = [pc EXCEPT ![w] = "goal"]
    /\ UNCHANGED << config, addedStartStates, sol, solLock, timeUp, opc, rstate,
                    dist, goalv, outv, callBase, nSucc, iters, solves >>

\* lines 88-90: solved = goal->isSatisfied(motion->state, &dist)
GoalCheck(w) ==
    /\ pc[w] = "goal"
    /\ \E d \in Dists :
        /\ dist' = [dist EXCEPT ![w] = d]
        /\ gdist' = [gdist EXCEPT ![motion[w]] = d]
        /\ pc' = [pc EXCEPT ![w] = IF IsSatisfied(d) THEN "lockExact" ELSE "preCheck"]
    /\ UNCHANGED << config, addedStartStates, nn, nnLock, sol, solLock, timeUp,
                    opc, rstate, nmotion, xstate, motion, goalv, outv, callBase,
                    nSucc, iters, solves, overrun >>

\* faulty variant: the exact branch does not record its distance
LockExactNoDif(w) ==
    /\ pc[w] = "lockExact"
    /\ CanLock(solLock)
    /\ solLock' = w
    /\ overrun' = Counted(overrun, "wr", w, sol)
    /\ pc' = [pc EXCEPT ![w] = "exactSol"]
    /\ UNCHANGED << config, addedStartStates, nn, nnLock, sol, timeUp, opc,
                    locals, goalv, outv, gdist, callBase, nSucc, iters, solves >>

\* lines 92-93: sol->lock.lock(); sol->approxdif = dist
LockExact(w) ==
    /\ pc[w] = "lockExact"
    /\ CanLock(solLock)
    /\ solLock' = w
    /\ sol' = [sol EXCEPT !.approxdif = dist[w]]
    /\ overrun' = Counted(overrun, "wr", w, sol)
    /\ pc' = [pc EXCEPT ![w] = "exactSol"]
    /\ UNCHANGED << config, addedStartStates, nn, nnLock, timeUp, opc, locals,
                    goalv, outv, gdist, callBase, nSucc, iters, solves >>

\* lines 94-96: sol->solution = motion; sol->lock.unlock(); break
WriteExactSol(w) ==
    /\ pc[w] = "exactSol"
    /\ sol' = [sol EXCEPT !.solution = motion[w]]
    /\ solLock' = Unlock(solLock, w)
    /\ ResetLocals(w)
    /\ pc' = [pc EXCEPT ![w] = "done"]
    /\ UNCHANGED << config, addedStartStates, nn, nnLock, timeUp, opc, goalv,
                    outv, gdist, callBase, nSucc, iters, solves, overrun >>

\* line 98: if (dist < sol->approxdif), read without the lock
PreCheck(w) ==
    /\ pc[w] = "preCheck"
    /\ IF Improves(dist[w], sol)
       THEN /\ pc' = [pc EXCEPT ![w] = "lockApprox"]
            /\ UNCHANGED locals
       ELSE /\ pc' = [pc EXCEPT ![w] = "head"]
            /\ ResetLocals(w)
    /\ UNCHANGED << config, addedStartStates, nn, nnLock, sol, solLock, timeUp,
                    opc, goalv, outv, gdist, callBase, nSucc, iters, solves,
                    overrun >>

\* lines 100-103: sol->lock.lock(); the comparison again; sol->approxdif = dist
\* (line 106, sol->lock.unlock(), when the comparison fails)
LockApprox(w) ==
    /\ pc[w] = "lockApprox"
    /\ CanLock(solLock)
    /\ IF StillImproves(dist[w], sol)
       THEN /\ solLock' = w
            /\ sol' = [sol EXCEPT !.approxdif = dist[w]]
            /\ overrun' = Counted(overrun, "wr", w, sol)
            /\ pc' = [pc EXCEPT ![w] = "approxSol"]
            /\ UNCHANGED locals
       ELSE /\ pc' = [pc EXCEPT ![w] = "head"]
            /\ ResetLocals(w)
            /\ UNCHANGED << sol, solLock, overrun >>
    /\ UNCHANGED << config, addedStartStates, nn, nnLock, timeUp, opc, goalv,
                    outv, gdist, callBase, nSucc, iters, solves >>

\* lines 104-106: sol->approxsol = motion; sol->lock.unlock()
WriteApproxSol(w) ==
    /\ pc[w] = "approxSol"
    /\ sol' = [sol EXCEPT !.approxsol = motion[w]]
    /\ solLock' = Unlock(solLock, w)
    /\ ResetLocals(w)
    /\ pc' = [pc EXCEPT ![w] = "head"]
    /\ UNCHANGED << config, addedStartStates, nn, nnLock, timeUp, opc, goalv,
                    outv, gdist, callBase, nSucc, iters, solves, overrun >>

(* --------------------------- pRRT::solve ------------------------------ *)
\* faulty variant: the validity of a start state is not checked
AnyStart(i) == TRUE

\* line 132: si->satisfiesBounds(st) && si->isValid(st)
StartValid(i) == startOK[i]

\* faulty variant: seeding starts over on every call
FromFirst(added) == 1

\* line 129: the first start state not considered yet (1-based)
FirstUnseeded(added) == added + 1

\* lines 129-140: add the start states from index i on that are valid
RECURSIVE SeedTree(_, _)
SeedTree(tree, i) ==
    IF i > NStarts THEN tree
    ELSE SeedTree(IF StartValid(i) THEN NNAdd(tree, NewMotion(StartState(i), NULL))
                  ELSE tree, i + 1)

\* gdist grown to the length of the tree, the new nodes unmeasured
RECURSIVE Unmeasured(_, _)
Unmeasured(g, n) == IF Len(g) >= n THEN g ELSE Unmeasured(Append(g, -1), n)

\* lines 175-179: the motions from a node up to its root
RECURSIVE MPath(_, _)
MPath(tree, n) ==
    IF n = NULL THEN <<>> ELSE <<n>> \o MPath(tree, tree[n].parent)

\* faulty variant: the states of mpath in the order collected
PathStatesUnreversed(tree, mpath) ==
    [k \in 1 .. Len(mpath) |-> tree[mpath[k]].state]

\* lines 183-188: the states of mpath, last to first
PathStates(tree, mpath) ==
    [k \in 1 .. Len(mpath) |-> tree[mpath[Len(mpath) + 1 - k]].state]

\* lines 164-169: the result is approximate when no exact solution was found
Approximate(s) == s.solution = NULL

\* faulty variant: no fallback to the approximate solution
ExactOnly(s) == s.solution

\* lines 165-169: the exact solution, else the approximate one
SolutionNode(s) == IF s.solution = NULL THEN s.approxsol ELSE s.solution

\* faulty variant: the threads are not joined
NoJoin == TRUE

\* lines 158-162: every worker thread has been joined
AllJoined == \A w \in Workers : w < threadCount => pc[w] = "done"

\* goal->isAchieved(): a solution path is set and it is not approximate
IsAchieved(path, approx) == path # <<>> /\ ~approx

\* lines 121-125: no goal region
SolveNoGoal ==
    /\ opc = "idle"
    /\ solves < MaxSolves
    /\ ~hasGoal
    /\ solves' = solves + 1
    /\ ret' = FALSE
    /\ reported' = FALSE
    /\ exact' = FALSE
    /\ solNode' = NULL
    /\ UNCHANGED << config, addedStartStates, nn, nnLock, sol, solLock, timeUp,
                    opc, pc, locals, goalv, gdist, callBase, nSucc, iters,
                    overrun >>

\* lines 127-146: seeding leaves the tree empty
SolveNoStart ==
    /\ opc = "idle"
    /\ solves < MaxSolves
    /\ hasGoal
    /\ nn' = SeedTree(nn, FirstUnseeded(addedStartStates))
    /\ Len(nn') = 0
    /\ addedStartStates' = NStarts
    /\ solves' = solves + 1
    /\ ret' = FALSE
    /\ reported' = FALSE
    /\ exact' = FALSE
    /\ solNode' = NULL
    /\ UNCHANGED << config, nnLock, sol, solLock, timeUp, opc, pc, locals,
                    goalv, gdist, callBase, nSucc, iters, overrun >>

\* lines 127-157: seeding, a fresh SolutionInfo, the worker threads started
SolveLaunch ==
    /\ opc = "idle"
    /\ solves < MaxSolves
    /\ hasGoal
    /\ nn' = SeedTree(nn, FirstUnseeded(addedStartStates))
    /\ Len(nn') # 0
    /\ addedStartStates' = NStarts
    /\ gdist' = Unmeasured(gdist, Len(nn'))
    /\ callBase' = Len(nn')
    /\ sol' = EmptySol
    /\ overrun' = NoOverrun
    /\ timeUp' = FALSE
    /\ pc' = [w \in Workers |-> IF w < threadCount THEN "head" ELSE "none"]
    /\ opc' = "running"
    /\ solves' = solves + 1
    /\ ret' = FALSE
    /\ reported' = FALSE
    /\ exact' = FALSE
    /\ solNode' = NULL
    /\ UNCHANGED << config, nnLock, solLock, locals, goalv, nSucc, iters >>

\* lines 158-199: join, resolution, path reconstruction, report, return
SolveJoin ==
    /\ opc = "running"
    /\ AllJoined
    /\ LET approximate == Approximate(sol)
           node == SolutionNode(sol)
           path == PathStates(nn, MPath(nn, node))
       IN  /\ exact' = ~approximate
           /\ solNode' = node
           /\ reported' = (node # NULL)
           /\ IF node # NULL
              THEN /\ goalDiff' = sol.approxdif
                   /\ goalPath' = path
                   /\ goalApprox' = approximate
              ELSE UNCHANGED goalv
           /\ ret' = IsAchieved(goalPath', goalApprox')
    /\ sol' = EmptySol
    /\ overrun' = NoOverrun
    /\ timeUp' = FALSE
    /\ pc' = [w \in Workers |-> "none"]
    /\ opc' = "idle"
    /\ UNCHANGED << config, addedStartStates, nn, nnLock, solLock, locals,
                    gdist, callBase, nSucc, iters, solves >>

\* lines 210-215: setThreadCount(n), between solve calls.  assert(nthreads > 0)
\* is compiled out with NDEBUG, and the count is then stored whatever it is;
\* with the assertion compiled in, a call with n = 0 aborts the process, which
\* is the behaviour that takes no further step from this state.
SetThreadCount(n) ==
    /\ opc = "idle"
    /\ n # threadCount
    /\ threadCount' = n
    /\ UNCHANGED << hasGoal, startOK, iterBudget, addedStartStates, nn, nnLock,
                    sol, solLock, timeUp, opc, pc, locals, goalv, outv, gdist,
                    callBase, nSucc, iters, solves, overrun >>

\* time::now() reaches endTime
Tick ==
    /\ opc = "running"
    /\ ~timeUp
    /\ timeUp' = TRUE
    /\ UNCHANGED << config, addedStartStates, nn, nnLock, sol, solLock, opc, pc,
                    locals, goalv, outv, gdist, callBase, nSucc, iters, solves,
                    overrun >>

Worker(w) ==
    \/ LoopHead(w)
    \/ LockNearest(w)
    \/ FindNearest(w)
    \/ ExtendValid(w)
    \/ ExtendInvalid(w)
    \/ LockAdd(w)
    \/ AddMotion(w)
    \/ GoalCheck(w)
    \/ LockExact(w)
    \/ WriteExactSol(w)
    \/ PreCheck(w)
    \/ LockApprox(w)
    \/ WriteApproxSol(w)

Next ==
    \/ SolveNoGoal
    \/ SolveNoStart
    \/ SolveLaunch
    \/ SolveJoin
    \/ \E n \in 0 .. MaxThreads : SetThreadCount(n)
    \/ Tick
    \/ \E w \in Workers : Worker(w)

Spec == Init /\ [][Next]_vars

\* threads are scheduled fairly and time advances
FairSpec ==
    /\ Spec
    /\ WF_vars(Tick)
    /\ WF_vars(SolveJoin)
    /\ \A w \in Workers : WF_vars(Worker(w))

(* ----------------------- steering on its own --------------------------- *)
\* the states within the bounds of the state space
Box == [1 .. Dim -> MinValue .. MaxValue]

\* one worker at line 70 with any candidate r and any nearest node n
SteerInit ==
    /\ hasGoal = TRUE
    /\ startOK = [i \in 1 .. NStarts |-> TRUE]
    /\ threadCount = 1
    /\ addedStartStates = NStarts
    /\ \E n \in Box : nn = << NewMotion(n, NULL) >>
    /\ nnLock = NoThread
    /\ sol = EmptySol
    /\ solLock = NoThread
    /\ timeUp = FALSE
    /\ opc = "running"
    /\ pc = [w \in Workers |-> IF w = 0 THEN "steer" ELSE "none"]
    /\ \E r \in Box : rstate = [w \in Workers |-> IF w = 0 THEN r ELSE NoState]
    /\ nmotion = [w \in Workers |-> IF w = 0 THEN 1 ELSE NULL]
    /\ xstate = [w \in Workers |-> NoState]
    /\ motion = [w \in Workers |-> NULL]
    /\ dist = [w \in Workers |-> 0]
    /\ goalPath = <<>>
    /\ goalApprox = FALSE
    /\ goalDiff = Infinity
    /\ ret = FALSE
    /\ reported = FALSE
    /\ exact = FALSE
    /\ solNode = NULL
    /\ gdist = << -1 >>
    /\ callBase = 1
    /\ nSucc = 0
    /\ iters = 1
    /\ solves = 1
    /\ iterBudget = MaxIter
    /\ overrun = NoOverrun

\* lines 70-77: the steering and the motion check, nothing else
SteerNext == \E w \in Workers : ExtendValid(w) \/ ExtendInvalid(w)

SteerSpec == SteerInit /\ [][SteerNext]_vars

(* ------------------- one more iteration, one problem ------------------- *)
\* a planner with a goal region, one valid start state and MaxThreads threads,
\* whose workers may start one iteration more than in Init
OverrunInit ==
    /\ hasGoal = TRUE
    /\ startOK = [i \in 1 .. NStarts |-> i = 1]
    /\ threadCount = MaxThreads
    /\ addedStartStates = 0
    /\ nn = <<>>
    /\ nnLock = NoThread
    /\ sol = EmptySol
    /\ solLock = NoThread
    /\ timeUp = FALSE
    /\ opc = "idle"
    /\ pc = [w \in Workers |-> "none"]
    /\ rstate = [w \in Workers |-> NoState]
    /\ nmotion = [w \in Workers |-> NULL]
    /\ xstate = [w \in Workers |-> NoState]
    /\ motion = [w \in Workers |-> NULL]
    /\ dist = [w \in Workers |-> 0]
    /\ goalPath = <<>>
    /\ goalApprox = FALSE
    /\ goalDiff = Infinity
    /\ ret = FALSE
    /\ reported = FALSE
    /\ exact = FALSE
    /\ solNode = NULL
    /\ gdist = <<>>
    /\ callBase = 0
    /\ nSucc = 0
    /\ iters = 0
    /\ solves = 0
    /\ iterBudget = MaxIter + 1
    /\ overrun = NoOverrun

\* solve calls that run workers, and the workers
OverrunNext ==
    \/ SolveLaunch
    \/ SolveJoin
    \/ Tick
    \/ \E w \in Workers : Worker(w)

OverrunSpec == OverrunInit /\ [][OverrunNext]_vars

(* ------------------------------ claims -------------------------------- *)
Launched == { w \in Workers : w < threadCount }

\* the workers have all left threadSolve and solve has not yet resolved
JoinPoint == opc = "running" /\ AllJoined

\* the nodes inserted by workers during the current (or last) solve call
CallNodes == (callBase + 1) .. Len(nn)

\* the nodes of this call whose goal check returned satisfied
SatNodes == { i \in CallNodes : gdist[i] # -1 /\ IsSatisfied(gdist[i]) }

\* the states of the start states seeded so far
SeededStates == { StartState(k) : k \in { j \in 1 .. addedStartStates : startOK[j] } }

NumSeeded == Cardinality({ j \in 1 .. addedStartStates : startOK[j] })

\* C1 as stated: during a solve call no write by any worker, through the
\* exact-solution branch or the approximate-solution branch, leaves approxdif
\* strictly larger than it was.
C1_DistanceNeverIncreases ==
    [][(opc = "running" /\ opc' = "running") => sol'.approxdif <= sol.approxdif]_vars

\* C1 amended: every write through the approximate-solution branch strictly
\* decreases approxdif, and approxdif never increases while no exact solution
\* is recorded; only an exact-solution write that follows another worker's
\* exact-solution write can increase it.
C1_NoIncreaseBeforeExact ==
    [][(opc = "running" /\ opc' = "running") =>
        /\ \A w \in Workers :
            (pc[w] = "lockApprox" /\ pc'[w] = "approxSol") =>
                sol'.approxdif < sol.approxdif
        /\ sol.solution = NULL => sol'.approxdif <= sol.approxdif]_vars

\* an approximate-branch write has lowered the distance and holds the lock,
\* while another worker waits to write an exact solution over it
C1_Witness ==
    \E w, v \in Workers :
        /\ pc[w] = "approxSol"
        /\ sol.approxdif < Infinity
        /\ pc[v] = "lockExact"

\* C2: after all workers have joined, if some goal check of this call was
\* satisfied the exact solution is one of the satisfied nodes; otherwise the
\* approximate solution is a node of this call whose measured goal distance,
\* which is the recorded distance, is the minimum over all nodes inserted
\* during the call (and there is none only when no node was inserted).
C2_IncumbentAtJoin ==
    JoinPoint =>
        IF SatNodes # {}
        THEN sol.solution \in SatNodes
        ELSE /\ sol.solution = NULL
             /\ IF CallNodes = {}
                THEN sol.approxsol = NULL
                ELSE /\ sol.approxsol \in CallNodes
                     /\ gdist[sol.approxsol] = sol.approxdif
                     /\ \A i \in CallNodes : sol.approxdif <= gdist[i]

\* joined with no exact solution, two nodes inserted by different workers,
\* and the incumbent is the one inserted first although measured last or not
C2_Witness ==
    /\ JoinPoint
    /\ threadCount > 1
    /\ SatNodes = {}
    /\ \E i, j \in CallNodes : i < j /\ gdist[i] > gdist[j]

\* C3: a worker that is about to run nearest() or add() on the index holds
\* the tree lock, so at most one worker is inside an index operation.
C3_TreeMutex ==
    /\ \A w \in Workers : pc[w] \in {"nearest", "add"} => nnLock = w
    /\ Cardinality({ w \in Workers : pc[w] \in {"nearest", "add"} }) <= 1

\* one worker is inside add() while another waits for the lock to query
C3_Witness ==
    \E w, v \in Workers : pc[w] = "add" /\ pc[v] = "lockNearest" /\ nnLock = w

\* the j-th ancestor of node n (n itself for j = 0)
RECURSIVE Ancestor(_, _)
Ancestor(n, j) == IF j = 0 THEN n ELSE Ancestor(nn[n].parent, j - 1)

\* the number of parent references between node n and its root
RECURSIVE Depth(_)
Depth(n) == IF nn[n].parent = NULL THEN 0 ELSE 1 + Depth(nn[n].parent)

\* every node is a seeded start state without parent, or a node whose parent
\* was in the tree before it
ParentsPrecede ==
    \A i \in 1 .. Len(nn) :
        IF nn[i].parent = NULL
        THEN nn[i].state \in SeededStates
        ELSE nn[i].parent \in 1 .. (i - 1)

\* following parent references from node n ends at a seeded start state
EndsAtStart(n) ==
    LET root == Ancestor(n, Depth(n))
    IN  nn[root].parent = NULL /\ nn[root].state \in SeededStates

\* C4: the parent references form a forest: a node's parent was in the tree
\* when the node was inserted, no node is removed or re-parented, and the
\* chain from every tree node, the incumbent's nodes included, ends at a
\* parentless node that is a seeded start state.
C4_Forest ==
    [][/\ ParentsPrecede'
       /\ \A i \in 1 .. Len(nn') : EndsAtStart(i)'
       /\ sol'.solution \in 0 .. Len(nn')
       /\ sol'.approxsol \in 0 .. Len(nn')
       /\ Len(nn') >= Len(nn)
       /\ \A i \in 1 .. Len(nn) : nn'[i] = nn[i]]_vars

\* the approximate solution is a node two parent references from its root
C4_Witness == sol.approxsol # NULL /\ Depth(sol.approxsol) >= 2

\* C5: once all workers have joined, the tree's size is the number of seeded
\* start states plus the number of iterations whose motion check succeeded.
C5_TreeSize ==
    (\A w \in Workers : pc[w] \in {"none", "done"}) =>
        Len(nn) = NumSeeded + nSucc

\* two workers joined, each having inserted a node
C5_Witness ==
    /\ JoinPoint
    /\ threadCount > 1
    /\ nSucc >= 2
    /\ iters >= 2

\* C6: with fair scheduling and advancing time, a solve call that launched
\* its workers returns.
C6_SolveTerminates == (opc = "running") ~> (opc = "idle")

\* a solve call that launched workers has returned after a worker broke out
\* of its loop with an exact solution while another was waiting for a lock
C6_Witness == opc = "idle" /\ solves > 0 /\ exact /\ nSucc >= 2

\* C7: while solve waits, the running workers are exactly the thread
\* identities 0 .. threadCount-1; solve resolves and reports only in a step
\* taken when every one of them has left threadSolve, and no worker is
\* running once solve has gone on to resolution.
C7_JoinBeforeResolve ==
    [][/\ opc' = "running" =>
            { w \in Workers : pc'[w] # "none" } = 0 .. (threadCount' - 1)
       /\ opc' = "idle" => \A w \in Workers : pc'[w] = "none"
       /\ (opc = "running" /\ opc' = "idle") =>
            \A w \in Launched : pc[w] = "done"
       /\ (opc = "running" /\ (goalv' # goalv \/ outv' # outv)) =>
            \A w \in Launched : pc[w] = "done"]_vars

\* solve is blocked in join: worker 0 has terminated, worker 1 is still
\* inside an iteration
C7_Witness ==
    /\ opc = "running"
    /\ threadCount = 2
    /\ pc[0] = "done"
    /\ pc[1] \in {"add", "goal", "lockApprox", "approxSol"}

\* C8: a reported path is the parent chain of the solution node from the
\* root down: it starts with the state of a seeded start state, ends with
\* the solution node's state, and each consecutive pair of states is a
\* tree node's parent's state followed by that node's state.
C8_PathIsParentChain ==
    reported =>
        LET p == goalPath
            n == Len(goalPath)
        IN  /\ n = Depth(solNode) + 1
            /\ p[1] \in SeededStates
            /\ p[n] = nn[solNode].state
            /\ \A k \in 1 .. (n - 1) :
                LET child == Ancestor(solNode, n - 1 - k)
                IN  /\ nn[child].parent # NULL
                    /\ p[k] = nn[nn[child].parent].state
                    /\ p[k + 1] = nn[child].state

\* a path of three states was reported
C8_Witness == reported /\ Len(goalPath) >= 3 /\ goalPath[1] # goalPath[3]

\* C9 as stated: solve returns true only if an exact solution was recorded
\* by a worker during that same call.
C9_TrueOnlyIfExact == (opc = "idle" /\ solves > 0) => (ret => exact)

\* C10: in the step that resolves after the join, the result is flagged
\* approximate exactly when no exact solution was recorded; with an exact
\* solution the path ends at it; without one the path ends at the
\* approximate solution and carries its finite distance, and there is one
\* whenever a worker inserted a node; with neither nothing is reported.
C10_Resolution ==
    [][(opc = "running" /\ opc' = "idle") =>
        LET ex == sol.solution # NULL
        IN  /\ reported' => (goalApprox' <=> ~ex)
            /\ ex =>
                /\ reported' /\ ~goalApprox'
                /\ solNode' = sol.solution
                /\ sol.solution \in SatNodes
                /\ goalPath'[Len(goalPath')] = nn[sol.solution].state
            /\ (~ex /\ sol.approxsol # NULL) =>
                /\ reported' /\ goalApprox'
                /\ solNode' = sol.approxsol
                /\ goalPath'[Len(goalPath')] = nn[sol.approxsol].state
                /\ goalDiff' = gdist[sol.approxsol]
                /\ goalDiff' < Infinity
            /\ (~ex /\ CallNodes # {}) => sol.approxsol # NULL
            /\ (~ex /\ sol.approxsol = NULL) =>
                /\ ~reported'
                /\ UNCHANGED goalv]_vars

\* the second solve call reported an approximate path although the first
\* had reported an exact one
C10_Witness ==
    /\ opc = "idle"
    /\ solves = 2
    /\ reported
    /\ goalApprox
    /\ ~exact
    /\ goalDiff < Infinity
    /\ callBase > NumSeeded

\* no start state of the problem definition is valid
NoValidStart == \A i \in 1 .. NStarts : ~startOK[i]

\* a step that is the entry of a solve call
SolveCalled == opc = "idle" /\ solves' = solves + 1

\* C11: a solve call that finds no goal region, or that has no valid start
\* state in the tree after seeding, returns false without launching a worker
\* and without writing the incumbent; with no valid start state the tree is
\* still empty, and with no goal region the tree and the count of added start
\* states are unchanged.
C11_EarlyReturn ==
    [][(SolveCalled /\ (~hasGoal \/ NoValidStart)) =>
        /\ opc' = "idle"
        /\ ret' = FALSE
        /\ \A w \in Workers : pc'[w] = "none"
        /\ sol' = sol
        /\ goalv' = goalv
        /\ IF ~hasGoal
           THEN nn' = nn /\ addedStartStates' = addedStartStates
           ELSE Len(nn') = 0]_vars

\* a planner with a goal region but no valid start state has returned false
\* twice, its start states all considered and its tree empty
C11_Witness ==
    /\ hasGoal
    /\ NoValidStart
    /\ opc = "idle"
    /\ solves = 2
    /\ ~ret
    /\ addedStartStates = NStarts
    /\ Len(nn) = 0

\* C12 as stated: with a thread count of 0, solve launches no thread and
\* returns false.
C12_ZeroThreadsFail ==
    [][(threadCount = 0 /\ (SolveCalled \/ opc = "running")) =>
        /\ \A w \in Workers : pc'[w] = "none"
        /\ opc' = "idle" => ret' = FALSE]_vars

\* the nodes without parent that hold start state k
SeedsOf(k) ==
    { i \in 1 .. Len(nn) : nn[i].parent = NULL /\ nn[i].state = StartState(k) }

\* C13: over any sequence of solve calls every start state is considered for
\* seeding once: the tree holds exactly one parentless node for a valid start
\* state that was considered and none for an invalid one or one not considered
\* yet; an invalid start state does not stop the seeding of those after it;
\* and the start states have all been considered whenever a worker exists.
C13_SeededOnce ==
    /\ addedStartStates \in {0, NStarts}
    /\ \A k \in 1 .. NStarts :
        Cardinality(SeedsOf(k)) =
            IF k <= addedStartStates /\ startOK[k] THEN 1 ELSE 0
    /\ (hasGoal /\ solves > 0) => addedStartStates = NStarts
    /\ (\E w \in Workers : pc[w] # "none") => addedStartStates = NStarts

\* after two solve calls that both ran workers, the tree holds the second
\* start state once although the first one was invalid and skipped
C13_Witness ==
    /\ opc = "idle"
    /\ solves = 2
    /\ ~startOK[1]
    /\ startOK[2]
    /\ SeedsOf(1) = {}
    /\ Cardinality(SeedsOf(2)) = 1
    /\ callBase > 1

\* C14: the approximate update, made under sol.lock, overwrites the distance
\* and then the approximate node only when the worker's distance is strictly
\* smaller than the distance read under the lock; a worker whose unlocked
\* comparison passed but whose distance is no longer strictly smaller when it
\* has the lock changes nothing and returns to the loop head.
C14_StrictUnderLock ==
    [][\A w \in Workers :
        /\ (pc[w] = "lockApprox" /\ pc'[w] # "lockApprox") =>
            IF dist[w] < sol.approxdif
            THEN /\ sol' = [sol EXCEPT !.approxdif = dist[w]]
                 /\ pc'[w] = "approxSol"
            ELSE /\ sol' = sol
                 /\ solLock' = solLock
                 /\ pc'[w] = "head"
        /\ (pc[w] = "approxSol" /\ pc'[w] # "approxSol") =>
            /\ sol' = [sol EXCEPT !.approxsol = motion[w]]
            /\ sol.approxdif = gdist[motion[w]]
        /\ sol'.approxsol # sol.approxsol =>
            \/ \E v \in Workers : pc[v] = "approxSol" /\ pc'[v] # "approxSol"
            \/ opc' # opc]_vars

\* a worker passed the unlocked comparison, and before it took the lock another
\* worker recorded a distance that is not larger than its own
C14_Witness ==
    \E w \in Workers :
        /\ pc[w] = "lockApprox"
        /\ solLock = NoThread
        /\ sol.approxsol # NULL
        /\ dist[w] >= sol.approxdif

\* the positions of a worker from the loop head up to the motion check
BeforeCheck == {"head", "lockNearest", "nearest", "steer"}

\* C16: an iteration whose motion check fails changes no shared planner state:
\* no step of a worker from the loop head up to the check changes the tree or
\* the incumbent (exact node, approximate node, distance), and the step of the
\* failed check itself also leaves both locks as they are, inserts and measures
\* nothing, and takes the worker back to the loop head.
C16_FailedCheckNoEffect ==
    [][\A w \in Workers :
        /\ (pc[w] \in BeforeCheck /\ pc'[w] # pc[w] /\ opc' = opc) =>
            /\ nn' = nn
            /\ sol' = sol
        /\ (pc[w] = "steer" /\ pc'[w] # "steer" /\ nSucc' = nSucc) =>
            /\ pc'[w] = "head"
            /\ nn' = nn
            /\ sol' = sol
            /\ gdist' = gdist
            /\ nnLock' = nnLock
            /\ solLock' = solLock
            /\ goalv' = goalv]_vars

\* a worker is back at the loop head after a failed motion check: an iteration
\* was started, the worker has nothing in flight, and the tree holds only the
\* seeded start states
C16_Witness ==
    \E w \in Workers :
        /\ pc[w] = "head"
        /\ threadCount = 1
        /\ iters = 1
        /\ nSucc = 0
        /\ Len(nn) = NumSeeded
        /\ sol = EmptySol

\* C18: the distance a solve call gives to setDifference is the goal distance
\* that was measured for the last node of the path it reports, whichever way
\* the exact and approximate writes of the workers interleaved.
C18_DifferenceOfReportedNode ==
    [][(opc = "running" /\ opc' = "idle" /\ reported') =>
        /\ solNode' \in CallNodes
        /\ goalPath'[Len(goalPath')] = nn[solNode'].state
        /\ goalDiff' = gdist[solNode']]_vars

\* a call has reported an exact solution with the distance of its node, and
\* another worker's goal check was satisfied with a different distance
C18_Witness ==
    /\ opc = "idle"
    /\ reported
    /\ exact
    /\ goalDiff = gdist[solNode]
    /\ \E i \in SatNodes : gdist[i] # gdist[solNode]

\* the positions at which a worker owns m_nnLock, and sol.lock
HoldsTree == {"nearest", "add"}
HoldsSol == {"exactSol", "approxSol"}

\* the positions at which a worker waits for m_nnLock, and sol.lock
WaitsTree == {"lockNearest", "lockAdd"}
WaitsSol == {"lockExact", "lockApprox"}

\* C19: a worker never holds both locks at once; it holds the tree lock only
\* inside nearest() and add(), never while sampling, steering, checking the
\* motion or checking the goal, and sol.lock only inside an incumbent update;
\* it holds no lock once it has left its loop; a worker that waits for a lock
\* waits for a worker that can take a step, so no state is a deadlock; and
\* both locks are free once every worker has terminated.
C19_LockDiscipline ==
    /\ \A w \in Workers :
        /\ ~(nnLock = w /\ solLock = w)
        /\ nnLock = w <=> pc[w] \in HoldsTree
        /\ solLock = w <=> pc[w] \in HoldsSol
        /\ pc[w] \in {"done", "none"} => (nnLock # w /\ solLock # w)
        /\ (pc[w] \in WaitsTree /\ ~ENABLED Worker(w)) =>
            \E v \in Workers \ {w} : nnLock = v /\ ENABLED Worker(v)
        /\ (pc[w] \in WaitsSol /\ ~ENABLED Worker(w)) =>
            \E v \in Workers \ {w} : solLock = v /\ ENABLED Worker(v)
    /\ (\A w \in Workers : pc[w] \in {"done", "none"}) =>
        (nnLock = NoThread /\ solLock = NoThread)

\* one worker is inside an incumbent update while another is inside a tree
\* operation
C19_Witness ==
    \E w, v \in Workers :
        /\ w # v
        /\ solLock = w
        /\ pc[w] = "exactSol"
        /\ nnLock = v
        /\ pc[v] = "add"

\* C20: a seeded start state is never evaluated against the goal and never
\* stored in the incumbent: the node a worker measures, the exact solution
\* and the approximate solution are nodes a worker inserted, with a parent, so
\* a path given to the goal has at least two states.
C20_WorkerNodesOnly ==
    /\ \A i \in 1 .. Len(gdist) : nn[i].parent = NULL => gdist[i] = -1
    /\ \A w \in Workers : motion[w] # NULL => nn[motion[w]].parent # NULL
    /\ sol.solution # NULL => nn[sol.solution].parent # NULL
    /\ sol.approxsol # NULL => nn[sol.approxsol].parent # NULL
    /\ solNode # NULL => nn[solNode].parent # NULL
    /\ goalPath # <<>> => Len(goalPath) >= 2

\* a call has reported an exact path of two states, a start state that was
\* never measured and the node a worker extended from it
C20_Witness ==
    /\ opc = "idle"
    /\ reported
    /\ exact
    /\ Len(goalPath) = 2
    /\ nn[nn[solNode].parent].parent = NULL
    /\ gdist[nn[solNode].parent] = -1

\* a step in which worker w computes the steered state
Steers(w) == pc[w] = "steer" /\ pc'[w] = "lockAdd"

\* C17 as stated: in each coordinate the steered state takes the candidate's
\* coordinate when the candidate is within range_i of the nearest node, and is
\* otherwise the nearest node's coordinate moved by exactly range_i toward the
\* candidate.
C17_StepOfExactlyRange ==
    [][\A w \in Workers : Steers(w) =>
        \A i \in 1 .. Dim :
            LET r == rstate[w][i]
                n == nn[nmotion[w]].state[i]
                x == xstate'[w][i]
            IN  IF Abs(r - n) < Range(i) THEN x = r
                ELSE x = IF r > n THEN n + Range(i) ELSE n - Range(i)]_vars

\* C17 amended: in each coordinate the steered state takes the candidate's
\* coordinate when the candidate is within range_i of the nearest node, and is
\* otherwise the nearest node's coordinate moved toward the candidate by rho
\* times the coordinate difference; for states within the bounds the steered
\* state lies between the two and differs from the nearest node by at most
\* range_i.
C17_StepOfRhoTimesDifference ==
    [][\A w \in Workers : Steers(w) =>
        \A i \in 1 .. Dim :
            LET r == rstate[w][i]
                n == nn[nmotion[w]].state[i]
                x == xstate'[w][i]
            IN  /\ Abs(r - n) < Range(i) => x = r
                /\ Abs(r - n) >= Range(i) => x - n = MulRho(r - n)
                /\ Abs(x - n) <= Range(i)
                /\ Abs(x - n) <= Abs(r - n)
                /\ (x - n) * (r - n) >= 0]_vars

\* a steered state whose first coordinate was moved by the whole range and
\* whose second coordinate was moved by less
C17_Witness ==
    \E w \in Workers :
        /\ pc[w] = "lockAdd"
        /\ Abs(xstate[w][1] - nn[nmotion[w]].state[1]) = Range(1)
        /\ Abs(xstate[w][2] - nn[nmotion[w]].state[2]) \in 1 .. (Range(2) - 1)

\* the sum of f over the workers 0 .. k
RECURSIVE SumUpTo(_, _)
SumUpTo(f, k) == IF k < 0 THEN 0 ELSE f[k] + SumUpTo(f, k - 1)

\* C15: the worker that records an exact solution leaves its loop with that
\* step; a worker at the loop head starts an iteration only if it reads no
\* exact solution and a time before the deadline, and leaves the loop
\* otherwise; so once an exact solution is recorded every worker makes at most
\* one more tree insertion and at most one more incumbent write, and the
\* workers together at most threadCount - 1 more insertions.
C15_OverrunOneIteration ==
    [][/\ \A w \in Workers :
            /\ (pc[w] = "exactSol" /\ pc'[w] # "exactSol") => pc'[w] = "done"
            /\ (pc[w] = "head" /\ pc'[w] # "head" /\ opc' = opc) =>
                pc'[w] = IF sol.solution = NULL /\ ~timeUp
                         THEN "lockNearest" ELSE "done"
            /\ overrun'.ins[w] <= 1
            /\ overrun'.wr[w] <= 1
       /\ sol'.solution # NULL =>
            SumUpTo(overrun'.ins, MaxThreads - 1) <= threadCount - 1
       /\ (sol.solution = NULL /\ sol'.solution # NULL) =>
            overrun' = NoOverrun]_vars

\* after an exact solution was recorded another worker, which had started its
\* iteration before, has inserted its node, recorded it as well, and left;
\* one iteration of the budget was never started
C15_Witness ==
    \E w, v \in Workers :
        /\ w # v
        /\ pc[w] = "done"
        /\ pc[v] = "done"
        /\ overrun.ins[v] = 1
        /\ overrun.wr[v] = 1
        /\ overrun.ins[w] = 0
        /\ ~timeUp
        /\ iters < iterBudget

====
